---- MODULE Spec2Model ----
(***************************************************************************)
(* Model of src/database/index.ts: the subscription lifecycle controller   *)
(* _useDatabaseRef, the mutation primitives `ops`, the entry points        *)
(* useList / useObject and the registry pop internalUnbind.                *)
(*                                                                         *)
(* The binders bindAsArray / bindAsObject live in ./subscribe and are      *)
(* modelled by their interface contract: a binder attaches a listener,     *)
(* calls resolve on first sync or reject on failure, afterwards applies    *)
(* change events through `ops`, and returns a handle that detaches the     *)
(* listener and applies the reset policy to the target.                    *)
(***************************************************************************)
EXTENDS Naturals, Integers, Sequences, FiniteSets, TLC

\* ------------------------------------------------------------------ bounds
MaxAttempts == 2      \* bind attempts per controller
MaxLen == 1           \* length of the bound array
MaxUnbindCalls == 2   \* manual unbind() calls
MaxOpsLen == 3        \* length of an array under a recorded run of ops

\* ------------------------------------------------------------ value domains
\* The controller passes references, records and failures through without
\* inspecting them, so two distinct values of each kind tell them apart.
Refs == {"r1", "r2"}        \* database references
Items == {"a", "b"}         \* remote records
Failures == {"e1", "e2"}    \* subscription failures
NoError == "undefined"      \* error.value before any failure

\* ------------------------------------------------------------ containers
\* The value held by the `data` ref: an array of records, or a single slot
\* (obj is "undefined", "null" or a record).
ArrayOf(s) == [arr |-> TRUE, seq |-> s, obj |-> "undefined"]
SlotOf(v) == [arr |-> FALSE, seq |-> << >>, obj |-> v]
EmptyArray == ArrayOf(<< >>)
Undefined == SlotOf("undefined")
Null == SlotOf("null")

\* Array.isArray(data.value)
IsArray(d) == d.arr

\* ------------------------------------------------------------------- ops
\* an add that appends, whatever the index
OpsAdd_Push(array, index, item) == Append(array, item)

\* ops.add: array.splice(index, 0, data)
OpsAdd(array, index, item) ==
  SubSeq(array, 1, index) \o << item >> \o SubSeq(array, index + 1, Len(array))

\* a remove that takes out the record after the one asked for
OpsRemove_Next(array, index) ==
  SubSeq(array, 1, index + 1) \o SubSeq(array, index + 3, Len(array))

\* ops.remove: array.splice(index, 1)
OpsRemove(array, index) ==
  SubSeq(array, 1, index) \o SubSeq(array, index + 2, Len(array))

\* ops.set on an array record: walkSet(target, key, value) with the index of
\* the record as key replaces that record
OpsSet(array, index, item) == [array EXCEPT ![index + 1] = item]

\* the arrays of at most n records
ArraysUpTo(n) == UNION {[1..k -> Items] : k \in 0..n}

\* --------------------------------------------------------------- options
ResetPolicies == {"default", "false", "custom"}
\* the value a caller-supplied reset policy puts into the container
CustomReset == SlotOf("a")

NoOptions == [hasTarget |-> FALSE, target |-> Undefined,
              initialValue |-> Undefined, reset |-> "default"]

\* useList: { target: ref([]), ...options }
useList(opts) ==
  [opts EXCEPT !.hasTarget = TRUE,
               !.target = IF opts.hasTarget THEN opts.target ELSE EmptyArray]

\* useObject: { target: ref(), ...options }
useObject(opts) ==
  [opts EXCEPT !.hasTarget = TRUE,
               !.target = IF opts.hasTarget THEN opts.target ELSE Undefined]

\* const data = options.target || ref(options.initialValue)
InitialData(opts) == IF opts.hasTarget THEN opts.target ELSE opts.initialValue

\* ----------------------------------------------------------------- state
VARIABLES
  isRefCell,        \* isRef(reference)
  reference,        \* unref(reference)
  options,          \* the options _useDatabaseRef received
  hasCurrentScope,  \* getCurrentScope() at construction
  data,             \* data.value
  error,            \* error.value: NoError or a failure
  pending,          \* pending.value
  promise,          \* promise.value: the attempt whose promise it holds
  _unbind,          \* the attempt whose unbind handle `_unbind` holds
  attempts,         \* one record per bindDatabaseRef call (createdPromises)
  microtasks,       \* promise reaction jobs, FIFO
  watching,         \* the watcher on `reference` is installed and not stopped
  scopeActive,      \* the owning scope has not ended
  unbindCalls,      \* number of unbind() calls made
  handleLog,        \* invocations of binder unbind handles, in order
  nChanges,         \* changes of the reference cell before any teardown
  uncaught,         \* a rejection reached the host unhandled
  unbinds,          \* registry passed to internalUnbind
  call,             \* arguments of the last internalUnbind call
  registryLog,      \* invocations of registry handles, in order
  entryPoint,       \* the entry point that built the controller
  eventLog,         \* change events delivered so far (recorded by SpecEvents)
  opsArray,         \* an array handed to ops.add / ops.remove directly
  opsOriginal,      \* that array before the first operation
  opsDone           \* the operations applied to it, in order

ctlVars == << isRefCell, reference, options, hasCurrentScope, data, error,
              pending, promise, _unbind, attempts, microtasks, watching,
              scopeActive, unbindCalls, handleLog, nChanges, uncaught >>
regVars == << unbinds, call, registryLog >>
opsVars == << opsArray, opsOriginal, opsDone >>
\* what the steps of the controller other than change events leave alone
otherVars == << regVars, opsVars, entryPoint, eventLog >>
vars == << ctlVars, regVars, opsVars, entryPoint, eventLog >>

\* ------------------------------------------------------------- binders
\* a binder choice fixed by the shape the container had at construction
BinderFor_AtConstruction(d) ==
  IF IsArray(InitialData(options)) THEN "array" ELSE "object"

\* which binder bindDatabaseRef invokes for the container's current value
BinderFor(d) == IF IsArray(d) THEN "array" ELSE "object"

\* the subscription a binder call opens
NewAttempt(r, d) ==
  [ref |-> r, binder |-> BinderFor(d), live |-> TRUE, sub |-> "opening",
   reason |-> NoError]

\* what the handle's reset policy writes into the target
ApplyReset(binder, reset, d) ==
  CASE reset = "false" -> d
    [] reset = "custom" -> CustomReset
    [] OTHER -> IF binder = "array" THEN EmptyArray ELSE Null

\* the binder's unbind handle: detach the listener, apply the reset policy
InvokeHandle(a, reset) ==
  /\ attempts' = [attempts EXCEPT ![a].live = FALSE]
  /\ data' = ApplyReset(attempts[a].binder, reset, data)
  /\ handleLog' = Append(handleLog, [a |-> a, reset |-> reset])

Current == Len(attempts)
Live == {a \in 1..Len(attempts) : attempts[a].live}

\* -------------------------------------------------------- construction
\* the state _useDatabaseRef leaves behind: the refs are created and the
\* first bindDatabaseRef has run (immediate watcher, or the direct call)
InitController(cell, scope, opts) ==
  /\ isRefCell = cell
  /\ reference = "r1"
  /\ hasCurrentScope = scope
  /\ options = opts
  /\ data = InitialData(opts)
  /\ error = NoError
  /\ pending = TRUE
  /\ attempts = << NewAttempt("r1", InitialData(opts)) >>
  /\ promise = 1
  /\ _unbind = 1
  /\ microtasks = << >>
  /\ watching = cell
  /\ scopeActive = scope
  /\ unbindCalls = 0
  /\ handleLog = << >>
  /\ nChanges = 0
  /\ uncaught = FALSE

NoRegistry == [present |-> FALSE, map |-> << >>]
NoCall == [key |-> -1, reset |-> ""]

\* no registry pop and no direct use of ops is under way
Idle ==
  /\ unbinds = NoRegistry
  /\ call = NoCall
  /\ registryLog = << >>
  /\ opsArray = << >>
  /\ opsOriginal = << >>
  /\ opsDone = << >>

EntryPoints == {"useList", "useObject"}

\* the options the entry point hands to _useDatabaseRef
EntryOptions(entry, opts) ==
  IF entry = "useList" THEN useList(opts) ELSE useObject(opts)

Init ==
  /\ \E cell \in BOOLEAN, scope \in BOOLEAN, reset \in ResetPolicies,
        entry \in EntryPoints :
       /\ InitController(cell, scope,
                         EntryOptions(entry, [NoOptions EXCEPT !.reset = reset]))
       /\ entryPoint = entry
  /\ eventLog = << >>
  /\ Idle

\* ------------------------------------------------------ bindDatabaseRef
\* a rebind that leaves promise.value on the promise it already holds
bindDatabaseRef_KeepPromise(r) ==
  /\ attempts' = Append(attempts, NewAttempt(r, data))
  /\ _unbind' = Len(attempts) + 1
  /\ promise' = promise
  /\ UNCHANGED << data, error, pending, microtasks >>

\* a rebind that does not capture the handle its binder returns
bindDatabaseRef_KeepHandle(r) ==
  /\ attempts' = Append(attempts, NewAttempt(r, data))
  /\ _unbind' = _unbind
  /\ promise' = Len(attempts) + 1
  /\ UNCHANGED << data, error, pending, microtasks >>

bindDatabaseRef(r) ==
  /\ attempts' = Append(attempts, NewAttempt(r, data))
  /\ _unbind' = Len(attempts) + 1
  /\ promise' = Len(attempts) + 1
  /\ UNCHANGED << data, error, pending, microtasks >>

\* SetReference without a watcher callback: the cell changes, nothing rebinds
SetReference_Unwatched(r) ==
  /\ isRefCell
  /\ r # reference
  /\ reference' = r
  /\ nChanges' = IF unbindCalls = 0 /\ scopeActive = hasCurrentScope
                 THEN nChanges + 1 ELSE nChanges
  /\ UNCHANGED << attempts, _unbind, promise, data, error, pending,
                  microtasks, isRefCell, options, hasCurrentScope, watching,
                  scopeActive, unbindCalls, handleLog, uncaught, otherVars >>

\* The reference cell is assigned a value different from the one it holds
\* (the watcher ignores an assignment of the same value). While the watcher
\* of watch(reference, bindDatabaseRef, { immediate: true }) is installed its
\* callback runs bindDatabaseRef for the change; one step is one change the
\* watcher observes. Once the watcher is stopped only the cell changes.
SetReference(r) ==
  /\ isRefCell
  /\ r # reference
  /\ reference' = r
  /\ IF watching
     THEN /\ Len(attempts) < MaxAttempts
          /\ bindDatabaseRef(r)
     ELSE UNCHANGED << attempts, _unbind, promise, data, error, pending,
                       microtasks >>
  /\ nChanges' = IF unbindCalls = 0 /\ scopeActive = hasCurrentScope
                 THEN nChanges + 1 ELSE nChanges
  /\ UNCHANGED << isRefCell, options, hasCurrentScope, watching, scopeActive,
                  unbindCalls, handleLog, uncaught, otherVars >>

\* ------------------------------------------------- settlement of p
\* the binder reports the first successful sync: resolve(...)
Resolve(a) ==
  /\ a \in 1..Len(attempts)
  /\ attempts[a].live
  /\ attempts[a].sub = "opening"
  /\ attempts' = [attempts EXCEPT ![a].sub = "synced"]
  /\ microtasks' = Append(microtasks,
                          [a |-> a, stage |-> "catch", st |-> "fulfilled"])
  /\ UNCHANGED << isRefCell, reference, options, hasCurrentScope, data, error,
                  pending, promise, _unbind, watching, scopeActive,
                  unbindCalls, handleLog, nChanges, uncaught, otherVars >>

\* the binder reports that the initial sync failed: reject(e)
Reject(a, e) ==
  /\ a \in 1..Len(attempts)
  /\ attempts[a].live
  /\ attempts[a].sub = "opening"
  /\ attempts' = [attempts EXCEPT ![a].sub = "failed", ![a].reason = e]
  /\ microtasks' = Append(microtasks,
                          [a |-> a, stage |-> "catch", st |-> "rejected"])
  /\ UNCHANGED << isRefCell, reference, options, hasCurrentScope, data, error,
                  pending, promise, _unbind, watching, scopeActive,
                  unbindCalls, handleLog, nChanges, uncaught, otherVars >>

\* state of the promise p of attempt a
PromiseState(a) ==
  CASE attempts[a].sub = "synced" -> "fulfilled"
    [] attempts[a].sub = "failed" -> "rejected"
    [] OTHER -> "pending"

\* a catch handler that drops the reason
CatchError_Swallow(st, reason, old) == old

\* p.catch((reason) => { error.value = reason }): the value written to error
CatchError(st, reason, old) == IF st = "rejected" THEN reason ELSE old

\* state of the promise p.catch(...) returns
CatchState(st) == "fulfilled"

\* reaction job of p.catch(...)
OnCatch ==
  /\ microtasks # << >>
  /\ Head(microtasks).stage = "catch"
  /\ LET t == Head(microtasks) IN
       /\ error' = CatchError(t.st, attempts[t.a].reason, error)
       /\ microtasks' = Append(Tail(microtasks),
                               [a |-> t.a, stage |-> "finally",
                                st |-> CatchState(t.st)])
  /\ UNCHANGED << isRefCell, reference, options, hasCurrentScope, data,
                  pending, promise, _unbind, attempts, watching, scopeActive,
                  unbindCalls, handleLog, nChanges, uncaught, otherVars >>

\* a finally handler that leaves pending as it is
FinallyPending_Keep(a, old) == old

\* .finally(() => { pending.value = false }): the value written to pending
FinallyPending(a, old) == FALSE

\* reaction job of .finally(...); the promise it returns has no handler, so
\* a rejection passing through it is reported as unhandled
OnFinally ==
  /\ microtasks # << >>
  /\ Head(microtasks).stage = "finally"
  /\ LET t == Head(microtasks) IN
       /\ pending' = FinallyPending(t.a, pending)
       /\ uncaught' = (uncaught \/ t.st = "rejected")
       /\ microtasks' = Tail(microtasks)
  /\ UNCHANGED << isRefCell, reference, options, hasCurrentScope, data, error,
                  promise, _unbind, attempts, watching, scopeActive,
                  unbindCalls, handleLog, nChanges, otherVars >>

\* --------------------------------------------------- change events
\* a live, synced subscription delivers a change; the binder applies it
\* through ops to whatever the target holds (a change event of the array
\* binder on a target that no longer holds an array is left out)
EventFrame ==
  UNCHANGED << isRefCell, reference, options, hasCurrentScope, error, pending,
               promise, _unbind, attempts, microtasks, watching, scopeActive,
               unbindCalls, handleLog, nChanges, uncaught, regVars, opsVars,
               entryPoint >>

\* the subscriptions opened with `binder` that are live and have synced
Delivers(binder) ==
  {a \in 1..Len(attempts) : /\ attempts[a].live
                            /\ attempts[a].sub = "synced"
                            /\ attempts[a].binder = binder}

\* a record is added at `index` of an array that holds fewer than n records
ChildAddedUpTo(n, index, item) ==
  /\ Delivers("array") # {}
  /\ IsArray(data)
  /\ Len(data.seq) < n
  /\ index \in 0..Len(data.seq)
  /\ data' = ArrayOf(OpsAdd(data.seq, index, item))
  /\ EventFrame

ChildAdded(index, item) == ChildAddedUpTo(MaxLen, index, item)

ChildRemoved(index) ==
  /\ Delivers("array") # {}
  /\ IsArray(data)
  /\ index \in 0..(Len(data.seq) - 1)
  /\ data' = ArrayOf(OpsRemove(data.seq, index))
  /\ EventFrame

ChildChanged(index, item) ==
  /\ Delivers("array") # {}
  /\ IsArray(data)
  /\ index \in 0..(Len(data.seq) - 1)
  /\ data' = ArrayOf(OpsSet(data.seq, index, item))
  /\ EventFrame

\* the values a snapshot of the bound node puts into the target: a record,
\* or an array when the node holds a list
Snapshots == {SlotOf(x) : x \in Items} \cup {EmptyArray}

ValueChanged(v) ==
  /\ Delivers("object") # {}
  /\ data' = v
  /\ EventFrame

\* ---------------------------------------------------------- teardown
\* an unbind() that releases the subscription and leaves the watcher running
unbind_KeepWatching ==
  /\ unbindCalls < MaxUnbindCalls
  /\ unbindCalls' = unbindCalls + 1
  /\ watching' = watching
  /\ InvokeHandle(_unbind, options.reset)
  /\ UNCHANGED << isRefCell, reference, options, hasCurrentScope, error,
                  pending, promise, _unbind, microtasks, scopeActive,
                  nChanges, uncaught, otherVars >>

\* function unbind() { stopWatcher(); _unbind(options.reset) }
unbind ==
  /\ unbindCalls < MaxUnbindCalls
  /\ unbindCalls' = unbindCalls + 1
  /\ watching' = FALSE
  /\ InvokeHandle(_unbind, options.reset)
  /\ UNCHANGED << isRefCell, reference, options, hasCurrentScope, error,
                  pending, promise, _unbind, microtasks, scopeActive,
                  nChanges, uncaught, otherVars >>

\* a dispose callback that calls the handle without the configured policy
ScopeDispose_NoPolicy ==
  /\ hasCurrentScope
  /\ scopeActive
  /\ scopeActive' = FALSE
  /\ watching' = FALSE
  /\ InvokeHandle(_unbind, "default")
  /\ UNCHANGED << isRefCell, reference, options, hasCurrentScope, error,
                  pending, promise, _unbind, microtasks, unbindCalls,
                  nChanges, uncaught, otherVars >>

\* The owning scope ends. The watcher was created while that scope was the
\* current one, so the scope stops it; then the onScopeDispose callback runs
\* _unbind(options.reset).
ScopeDispose ==
  /\ hasCurrentScope
  /\ scopeActive
  /\ scopeActive' = FALSE
  /\ watching' = FALSE
  /\ InvokeHandle(_unbind, options.reset)
  /\ UNCHANGED << isRefCell, reference, options, hasCurrentScope, error,
                  pending, promise, _unbind, microtasks, unbindCalls,
                  nChanges, uncaught, otherVars >>

\* ------------------------------------------------------------ registry
MaxKeys == 3          \* registry keys; key 0 is the '' key of unbind()
NumHandles == 2       \* distinct registered handles

Keys == 0..(MaxKeys - 1)
Handles == 1..NumHandles

Registries ==
  {NoRegistry} \cup
  {[present |-> TRUE, map |-> m] :
     m \in UNION {[S -> Handles] : S \in SUBSET Keys}}

\* unbinds && unbinds[key]
HasEntry(reg, key) == reg.present /\ key \in DOMAIN reg.map

\* a pop that forgets the delete
DeleteKey_Keep(reg, key) == reg

\* a delete that empties the registry
DeleteKey_All(reg, key) == [reg EXCEPT !.map = << >>]

\* delete unbinds[key]
DeleteKey(reg, key) ==
  [reg EXCEPT !.map = [k \in (DOMAIN reg.map) \ {key} |-> reg.map[k]]]

internalUnbind(key, reset) ==
  /\ IF HasEntry(unbinds, key)
     THEN /\ registryLog' = Append(registryLog,
                                   [h |-> unbinds.map[key], reset |-> reset])
          /\ unbinds' = DeleteKey(unbinds, key)
     ELSE UNCHANGED << unbinds, registryLog >>
  /\ call' = [key |-> key, reset |-> reset]
  /\ UNCHANGED << ctlVars, opsVars, entryPoint, eventLog >>

\* export const unbind = (target, reset) =>
\*   internalUnbind('', rtdbUnbinds.get(target), reset)
unbindTarget(reset) == internalUnbind(0, reset)

\* ------------------------------------------------------------- handle
\* Object.defineProperties(data, {...}): the cell each accessor returns
HandleProps == {"data", "error", "pending", "promise", "unbind"}

HandleGet(prop) ==
  CASE prop = "data" -> "data"
    [] prop = "error" -> "error"
    [] prop = "pending" -> "error"
    [] prop = "promise" -> "promise"
    [] prop = "unbind" -> "unbind"

\* whether the value held by a cell is truthy
CellTruthy(cell) ==
  CASE cell = "pending" -> pending
    [] cell = "error" -> error # NoError
    [] cell = "data" -> IsArray(data) \/ data.obj \notin {"undefined", "null"}
    [] OTHER -> TRUE

\* ------------------------------------------------------ specifications
Next ==
  \/ \E r \in Refs : SetReference(r)
  \/ \E a \in 1..MaxAttempts : Resolve(a)
  \/ \E a \in 1..MaxAttempts, e \in Failures : Reject(a, e)
  \/ OnCatch
  \/ OnFinally
  \/ \E i \in 0..MaxLen, x \in Items : ChildAdded(i, x) /\ UNCHANGED eventLog
  \/ \E i \in 0..MaxLen : ChildRemoved(i) /\ UNCHANGED eventLog
  \/ \E i \in 0..MaxLen, x \in Items :
       ChildChanged(i, x) /\ UNCHANGED eventLog
  \/ \E v \in Snapshots : ValueChanged(v) /\ UNCHANGED eventLog
  \/ unbind
  \/ ScopeDispose

Spec == Init /\ [][Next]_vars

\* the entry points over the options a caller may pass: with or without a
\* target of the caller's own, with or without an initialValue
CallerTargets == {EmptyArray, Undefined, ArrayOf(<< "a" >>)}
CallerInitialValues == {Undefined, EmptyArray}

CallerOptions ==
  {[hasTarget |-> FALSE, target |-> Undefined, initialValue |-> v,
    reset |-> "default"] : v \in CallerInitialValues}
  \cup
  {[hasTarget |-> TRUE, target |-> t, initialValue |-> v,
    reset |-> "default"] : t \in CallerTargets, v \in CallerInitialValues}

InitEntry ==
  /\ \E entry \in EntryPoints, opts \in CallerOptions :
       /\ InitController(TRUE, TRUE, EntryOptions(entry, opts))
       /\ entryPoint = entry
  /\ eventLog = << >>
  /\ Idle

SpecEntry == InitEntry /\ [][Next]_vars

\* one subscription on a plain reference, with the change events it
\* delivers recorded in delivery order
MaxEvents == 3        \* change events recorded

InitEvents ==
  /\ \E entry \in EntryPoints :
       /\ InitController(FALSE, FALSE, EntryOptions(entry, NoOptions))
       /\ entryPoint = entry
  /\ eventLog = << >>
  /\ Idle

\* the event is recorded as delivered
Logged(op, index, item, value) ==
  /\ Len(eventLog) < MaxEvents
  /\ eventLog' = Append(eventLog, [op |-> op, index |-> index, item |-> item,
                                    value |-> value])

NextEvents ==
  \/ \E a \in 1..MaxAttempts : Resolve(a)
  \/ \E a \in 1..MaxAttempts, e \in Failures : Reject(a, e)
  \/ OnCatch
  \/ OnFinally
  \/ \E i \in 0..MaxOpsLen, x \in Items :
       ChildAddedUpTo(MaxOpsLen, i, x) /\ Logged("add", i, x, Undefined)
  \/ \E i \in 0..MaxOpsLen :
       ChildRemoved(i) /\ Logged("remove", i, "undefined", Undefined)
  \/ \E i \in 0..MaxOpsLen, x \in Items :
       ChildChanged(i, x) /\ Logged("set", i, x, Undefined)
  \/ \E v \in Snapshots : ValueChanged(v) /\ Logged("value", 0, "undefined", v)
  \/ unbind

SpecEvents == InitEvents /\ [][NextEvents]_vars

\* The controller under the scheduling it runs with: the binder of a
\* subscription that is still attached reports its first sync or its failure
\* (the binder contract), and the host runs every queued promise reaction
\* job. Change events, the entry point and the reset policy do not touch
\* pending: the events are left out and one of each of the others is taken.
InitLive ==
  /\ \E cell \in BOOLEAN, scope \in BOOLEAN :
       InitController(cell, scope, useList(NoOptions))
  /\ entryPoint = "useList"
  /\ eventLog = << >>
  /\ Idle

NextLive ==
  \/ \E r \in Refs : SetReference(r)
  \/ \E a \in 1..MaxAttempts : Resolve(a)
  \/ \E a \in 1..MaxAttempts, e \in Failures : Reject(a, e)
  \/ OnCatch
  \/ OnFinally
  \/ unbind
  \/ ScopeDispose

Fairness ==
  /\ \A a \in 1..MaxAttempts :
       WF_vars(Resolve(a) \/ \E e \in Failures : Reject(a, e))
  /\ WF_vars(OnCatch)
  /\ WF_vars(OnFinally)

SpecLive == InitLive /\ [][NextLive]_vars /\ Fairness

\* the registry pop on its own, over every registry a caller may pass
InitRegistry ==
  /\ InitController(FALSE, FALSE, useList(NoOptions))
  /\ entryPoint = "useList"
  /\ eventLog = << >>
  /\ unbinds \in Registries
  /\ call = NoCall
  /\ registryLog = << >>
  /\ opsArray = << >>
  /\ opsOriginal = << >>
  /\ opsDone = << >>

NextRegistry ==
  \/ \E key \in Keys, reset \in ResetPolicies : internalUnbind(key, reset)
  \/ \E reset \in ResetPolicies : unbindTarget(reset)

SpecRegistry == InitRegistry /\ [][NextRegistry]_vars

\* the mutation primitives on their own: ops.add, then ops.remove, applied
\* to an array by a caller that holds `ops`
InitOps ==
  /\ InitController(FALSE, FALSE, useList(NoOptions))
  /\ entryPoint = "useList"
  /\ eventLog = << >>
  /\ unbinds = NoRegistry
  /\ call = NoCall
  /\ registryLog = << >>
  /\ opsOriginal \in ArraysUpTo(MaxOpsLen)
  /\ opsArray = opsOriginal
  /\ opsDone = << >>

\* ops.add(array, index, data) for an index in [0, length]
ApplyAdd(index, item) ==
  /\ opsDone = << >>
  /\ index \in 0..Len(opsArray)
  /\ opsArray' = OpsAdd(opsArray, index, item)
  /\ opsDone' = Append(opsDone, [op |-> "add", index |-> index, item |-> item])
  /\ UNCHANGED << ctlVars, regVars, entryPoint, eventLog, opsOriginal >>

\* ops.remove(array, index) for an index in [0, length - 1]
ApplyRemove(index) ==
  /\ Len(opsDone) = 1
  /\ index \in 0..(Len(opsArray) - 1)
  /\ opsArray' = OpsRemove(opsArray, index)
  /\ opsDone' = Append(opsDone,
                       [op |-> "remove", index |-> index, item |-> "undefined"])
  /\ UNCHANGED << ctlVars, regVars, entryPoint, eventLog, opsOriginal >>

NextOps ==
  \/ \E i \in 0..MaxOpsLen, x \in Items : ApplyAdd(i, x)
  \/ \E i \in 0..MaxOpsLen : ApplyRemove(i)

SpecOps == InitOps /\ [][NextOps]_vars

\* ============================================================== claims
\* the attempt's promise has settled and both its reactions have run
Settled(a) ==
  /\ attempts[a].sub # "opening"
  /\ \A i \in DOMAIN microtasks : microtasks[i].a # a

\* number of times a handle applied a reset policy to the container
ResetCount == Cardinality({i \in DOMAIN handleLog : handleLog[i].reset # "false"})

\* the step runs the reaction job at the head of the queue (the only steps
\* that take a job off the queue)
Reacts(stage) ==
  /\ microtasks # << >>
  /\ Head(microtasks).stage = stage
  /\ microtasks' # microtasks
  /\ Len(microtasks') <= Len(microtasks)

\* the step starts a bind attempt
Binds == Len(attempts') > Len(attempts)

\* the step invokes a binder unbind handle (unbind() or the dispose callback)
TearsDown == handleLog' # handleLog

\* C1: once a newer bind attempt has been started, a reaction to the
\* settlement of a superseded attempt's promise leaves error, pending and
\* promise as they were.
C1_StaleSettlementIgnored ==
  [][((Reacts("catch") \/ Reacts("finally"))
        /\ Head(microtasks).a < Len(attempts))
       => UNCHANGED << error, pending, promise >>]_vars

\* C2: at most one binder subscription of the controller is live (opened and
\* not released through its unbind handle) in every reachable state.
C2_OneLiveSubscription == Cardinality(Live) <= 1

C4_TeardownIdempotent ==
  [][(TearsDown /\ handleLog # << >>)
       => (data' = data /\ Live' = Live /\ ResetCount' = ResetCount)]_vars

\* C5: internalUnbind is a pop: with the key absent (or no registry) it
\* changes nothing; with the key present it invokes that entry's handle once
\* with the given reset and removes the entry, so the key is absent for an
\* immediately repeated call.
C5_InternalUnbindPops ==
  [][call'.key \in Keys =>
       IF HasEntry(unbinds, call'.key)
       THEN /\ registryLog' = Append(registryLog,
                                     [h |-> unbinds.map[call'.key],
                                      reset |-> call'.reset])
            /\ ~HasEntry(unbinds', call'.key)
            /\ unbinds'.present
       ELSE UNCHANGED << unbinds, registryLog >>]_vars

\* a present key was popped: its handle ran once and the entry is gone
C5_Witness ==
  /\ call.key \in Keys
  /\ Len(registryLog) = 1
  /\ registryLog[1].reset = call.reset
  /\ unbinds.present
  /\ call.key \notin DOMAIN unbinds.map

\* C6: every bind attempt, a rebind after a settled attempt included, sets
\* pending to true when it starts, and the current attempt's settlement sets
\* it to false.
C6_PendingTracksCurrent ==
  [][/\ Binds => pending'
     /\ (Reacts("finally") /\ Head(microtasks).a = Len(attempts))
          => ~pending']_vars

\* C7: after the current attempt has settled, error is undefined if it
\* resolved and equals its failure if it was rejected.
C7_ErrorOfCurrentAttempt ==
  Settled(Current) =>
    error = (IF attempts[Current].sub = "synced" THEN NoError
             ELSE attempts[Current].reason)

\* C8: a failure the binder reports through reject is captured: the catch
\* reaction stores that failure in error, the finally reaction sets pending
\* to false, neither touches the container, no rejection is left unhandled,
\* and a controller whose only attempt failed shows error = the failure,
\* pending = false and, until a teardown, its initial container.
C8_FailureCaptured ==
  /\ [](~uncaught)
  /\ []((Len(attempts) = 1 /\ attempts[1].sub = "failed" /\ Settled(1)) =>
          /\ error = attempts[1].reason
          /\ error \in Failures
          /\ ~pending
          /\ PromiseState(1) = "rejected"
          /\ handleLog = << >> => data = InitialData(options))
  /\ [][(Reacts("catch") /\ Head(microtasks).st = "rejected")
          => (error' = attempts[Head(microtasks).a].reason /\ data' = data)]_vars
  /\ [][(Reacts("finally") /\ attempts[Head(microtasks).a].sub = "failed")
          => (~pending' /\ data' = data)]_vars

\* the only attempt was rejected and both reactions have run
C8_Witness ==
  /\ Len(attempts) = 1
  /\ attempts[1].sub = "failed"
  /\ Settled(1)
  /\ error = attempts[1].reason
  /\ ~pending

\* C9: each accessor of the handle returns its own cell; reading `pending`
\* yields the pending state.
C9_AccessorsReturnOwnCell ==
  /\ \A prop \in HandleProps : HandleGet(prop) = prop
  /\ CellTruthy(HandleGet("pending")) = pending

\* C10: after unbind() has returned, no change event of any subscription the
\* controller opened changes the container (only a further teardown's reset
\* does).
C10_NoEventAfterUnbind ==
  [][(unbindCalls >= 1 /\ ~TearsDown) => data' = data]_vars

\* C11: with an owning scope at construction, the end of the scope stops the
\* observation of the reference and invokes the current subscription's
\* handle with options.reset, as unbind() does; without a scope the only
\* teardowns are the caller's unbind() calls.
C11_ScopeEndTearsDown ==
  /\ [](Len(handleLog) =
          unbindCalls + (IF hasCurrentScope /\ ~scopeActive THEN 1 ELSE 0))
  /\ []((~hasCurrentScope /\ unbindCalls = 0) =>
          (watching = isRefCell /\ Live = 1..Len(attempts)))
  /\ [][(scopeActive /\ ~scopeActive') =>
          /\ ~watching'
          /\ handleLog' = Append(handleLog,
                                 [a |-> _unbind, reset |-> options.reset])
          /\ _unbind = Len(attempts)
          /\ ~attempts'[_unbind].live
          /\ data' = ApplyReset(attempts[_unbind].binder, options.reset,
                                data)]_vars

\* the scope of a rebound reference cell ended, with a reset policy other
\* than the default, and the cell changed again without a new attempt
C11_Witness ==
  /\ hasCurrentScope
  /\ ~scopeActive
  /\ unbindCalls = 0
  /\ options.reset # "default"
  /\ Len(attempts) >= 2
  /\ Len(handleLog) = 1
  /\ reference # attempts[Current].ref

\* C12: for every array s, every index i in [0, length(s)] and every record
\* x, ops.add(s, i, x) followed by ops.remove(s, i) leaves s equal to what
\* it was; in between s is one longer and holds x at index i.
C12_AddThenRemoveIsIdentity ==
  /\ (Len(opsDone) >= 1) =>
        /\ opsDone[1].index \in 0..Len(opsOriginal)
        /\ (Len(opsDone) = 1) =>
              /\ Len(opsArray) = Len(opsOriginal) + 1
              /\ opsArray[opsDone[1].index + 1] = opsDone[1].item
  /\ (Len(opsDone) = 2 /\ opsDone[2].index = opsDone[1].index) =>
        opsArray = opsOriginal

C12_Witness ==
  /\ Len(opsDone) = 2
  /\ opsDone[2].index = opsDone[1].index
  /\ Len(opsOriginal) = MaxOpsLen
  /\ opsDone[1].index = 1
  /\ opsOriginal[1] # opsOriginal[2]
  /\ opsOriginal[2] # opsDone[1].item

\* C13: in every state after _useDatabaseRef has returned, promise.value is
\* defined and is the promise of the most recent bind attempt, for a plain
\* reference and for a reactive cell alike.
C13_PromiseIsLatestAttempt ==
  /\ promise \in 1..Len(attempts)
  /\ promise = Len(attempts)

C13_Witness ==
  /\ isRefCell
  /\ Len(attempts) = 2
  /\ promise = 2
  /\ attempts[1].sub = "synced"
  /\ attempts[2].sub = "opening"

\* C14: whatever options the caller passes, the first bind attempt of useList
\* runs on a container holding an empty array and invokes the array binder,
\* and the first bind attempt of useObject runs on a container holding
\* undefined and invokes the object binder.
C14_EntryFixesShape ==
  /\ InitialData(options) =
       (IF entryPoint = "useList" THEN EmptyArray ELSE Undefined)
  /\ attempts[1].binder =
       (IF entryPoint = "useList" THEN "array" ELSE "object")

\* what an insertion, a removal and a replacement at a position make of a
\* sequence
InsertAt(s, i, x) ==
  [j \in 1..(Len(s) + 1) |->
     IF j <= i THEN s[j] ELSE IF j = i + 1 THEN x ELSE s[j - 1]]
DeleteAt(s, i) ==
  [j \in 1..(Len(s) - 1) |-> IF j <= i THEN s[j] ELSE s[j + 1]]
ReplaceAt(s, i, x) ==
  [j \in 1..Len(s) |-> IF j = i + 1 THEN x ELSE s[j]]

\* the container after one change event
AfterEvent(d, ev) ==
  CASE ev.op = "add" -> ArrayOf(InsertAt(d.seq, ev.index, ev.item))
    [] ev.op = "remove" -> ArrayOf(DeleteAt(d.seq, ev.index))
    [] ev.op = "set" -> ArrayOf(ReplaceAt(d.seq, ev.index, ev.item))
    [] OTHER -> ev.value

\* the container after the events of a log, first to last
RECURSIVE Replay(_, _)
Replay(log, d) ==
  IF log = << >> THEN d ELSE Replay(Tail(log), AfterEvent(d, Head(log)))

\* the log entries of adding record x at index i and of removing index i
Added(i, x) == [op |-> "add", index |-> i, item |-> x, value |-> Undefined]
Removed(i) ==
  [op |-> "remove", index |-> i, item |-> "undefined", value |-> Undefined]

\* C15: while the one subscription is live, the container is the initial
\* container with the delivered change events applied one by one in delivery
\* order; one added record "a" gives <<"a">> with pending false and no error
\* once the attempt has settled, and its removal then gives the empty array.
C15_EventsAppliedInOrder ==
  (handleLog = << >>) =>
    /\ data = Replay(eventLog, InitialData(options))
    /\ (eventLog = << Added(0, "a") >>) =>
          /\ data = ArrayOf(<< "a" >>)
          /\ Settled(1) => (~pending /\ error = NoError)
    /\ (eventLog = << Added(0, "a"), Removed(0) >>) =>
          data = EmptyArray

C15_Witness ==
  /\ handleLog = << >>
  /\ eventLog = << Added(0, "a"), Added(0, "b"), Removed(1) >>
  /\ data = ArrayOf(<< "b" >>)
  /\ Settled(1)

\* C16: every bind attempt, the first and each rebind, invokes exactly one
\* binder, chosen by what the container holds at that moment: the array
\* binder if and only if it holds an array, otherwise the object binder;
\* the source is the current value of the reference and the container is
\* handed over as it is.
C16_BinderFromCurrentShape ==
  /\ [](/\ attempts[1].ref = "r1"
        /\ attempts[1].binder =
             (IF IsArray(InitialData(options)) THEN "array" ELSE "object"))
  /\ [][Binds =>
         /\ Len(attempts') = Len(attempts) + 1
         /\ SubSeq(attempts', 1, Len(attempts)) = attempts
         /\ attempts'[Len(attempts')].binder =
              (IF IsArray(data) THEN "array" ELSE "object")
         /\ attempts'[Len(attempts')].ref = reference'
         /\ data' = data]_vars

C16_Witness ==
  /\ Len(attempts) = 2
  /\ attempts[1].binder = "object"
  /\ attempts[2].binder = "array"
  /\ attempts[2].ref = "r2"
  /\ attempts[2].sub = "synced"

\* C17: unbind() stops the observation of the reference and releases the
\* subscription in one call; once unbind() has been called, no change of the
\* reference cell starts a bind attempt or opens a subscription.
C17_NoRebindAfterUnbind ==
  /\ []((unbindCalls >= 1) => ~watching)
  /\ [][(unbindCalls' > unbindCalls) =>
           (~Binds /\ ~watching' /\ ~attempts'[_unbind].live)]_vars
  /\ [][(unbindCalls >= 1) =>
           /\ ~Binds
           /\ Len(attempts') = Len(attempts)
           /\ Live' \subseteq Live]_vars

C17_Witness ==
  /\ isRefCell
  /\ unbindCalls >= 1
  /\ Len(attempts) < MaxAttempts
  /\ nChanges = 0
  /\ reference # attempts[Current].ref

\* C18: every invocation of a handle by the controller, from unbind() or
\* from the dispose callback, is made on the handle of the most recent bind
\* attempt, never on a superseded one, and passes options.reset.
C18_HandleOfLatestAttempt ==
  /\ [](\A i \in DOMAIN handleLog :
          /\ handleLog[i].a = Len(attempts)
          /\ handleLog[i].reset = options.reset)
  /\ [][(handleLog' # handleLog) =>
           /\ Len(handleLog') = Len(handleLog) + 1
           /\ SubSeq(handleLog', 1, Len(handleLog)) = handleLog
           /\ handleLog'[Len(handleLog')] =
                [a |-> Len(attempts), reset |-> options.reset]]_vars

C18_Witness ==
  /\ Len(attempts) = 2
  /\ attempts[1].live
  /\ options.reset = "custom"
  /\ unbindCalls = 1
  /\ hasCurrentScope
  /\ ~scopeActive
  /\ Len(handleLog) = 2

\* the subscription of attempt a was released before its binder reported
ReleasedUnsettled(a) ==
  /\ a <= Len(attempts)
  /\ ~attempts[a].live
  /\ attempts[a].sub = "opening"

\* C19: when every binder reports its first sync or its failure, every bind
\* attempt is eventually followed by a state in which pending is false, on
\* the success path and on the failure path alike; an attempt whose
\* subscription is released before its binder reports is outside that
\* contract. Once an attempt has settled, pending does not stay true.
C19_PendingEventuallyFalse ==
  \A a \in 1..MaxAttempts :
    /\ (a <= Len(attempts)) ~> (~pending \/ ReleasedUnsettled(a))
    /\ (a <= Len(attempts) /\ attempts[a].sub # "opening") ~> ~pending

C19_Witness ==
  /\ Len(attempts) = 2
  /\ attempts[1].sub = "opening"
  /\ attempts[1].live
  /\ attempts[2].sub = "failed"
  /\ Settled(2)
  /\ ~pending
  /\ handleLog = << >>

\* C20: internalUnbind(key, unbinds, reset) touches only the entry stored
\* under key: every other key keeps its entry, with the same handle, and its
\* handle is not invoked, whether key is present (one invocation, of key's
\* handle) or absent (nothing changes); unbind(target, reset) is that call
\* for the '' key.
C20_OtherKeysUntouched ==
  [][LET key == call'.key IN
       /\ unbinds'.present = unbinds.present
       /\ \A k \in Keys \ {key} :
            /\ HasEntry(unbinds', k) = HasEntry(unbinds, k)
            /\ HasEntry(unbinds, k) => unbinds'.map[k] = unbinds.map[k]
       /\ SubSeq(registryLog', 1, Len(registryLog)) = registryLog
       /\ IF HasEntry(unbinds, key)
          THEN /\ Len(registryLog') = Len(registryLog) + 1
               /\ registryLog'[Len(registryLog')].h = unbinds.map[key]
          ELSE /\ registryLog' = registryLog
               /\ unbinds' = unbinds]_vars

C20_Witness ==
  /\ call.key = 1
  /\ Len(registryLog) = 1
  /\ registryLog[1].h = 1
  /\ HasEntry(unbinds, 0)
  /\ HasEntry(unbinds, 2)
  /\ unbinds.map[0] = 1
  /\ unbinds.map[2] = 2

====
